---- MODULE Spec2Model ----
(***************************************************************************)
(* Order placement and cancellation of the ShopZone backend                *)
(* (Server-FastAPI_Supabase/app/routers/orders.py) over the hosted         *)
(* relational store, with the catalog update, the payment handlers and the *)
(* avatar uploads that work on the same store.  Every store call of a      *)
(* handler is one step of the worker that runs the request; a store call   *)
(* either answers or raises, and an insert may also answer with no rows.   *)
(* Amounts are integers in minor currency units.                           *)
(*   Spec        orders, served one at a time                              *)
(*   SpecShop    orders, price updates and payments, served one at a time  *)
(*   SpecConc    two create_order or cancel_order requests in flight       *)
(*   SpecAvatar  avatar uploads and deletes, served one at a time          *)
(*   SpecAuth    signup, login and password reset, served one at a time    *)
(*   SpecAddress address requests of two workers, interleaved              *)
(***************************************************************************)
EXTENDS Integers, Sequences, FiniteSets, TLC

VARIABLES products, orders, order_items, cart_items, issued,
          pc, req, loc, resp, pre, lastPlaced, faults,
          payment_intents, payments, blobs, avatar,
          users, addresses, accepted

vars == <<products, orders, order_items, cart_items, issued,
          pc, req, loc, resp, pre, lastPlaced, faults,
          payment_intents, payments, blobs, avatar,
          users, addresses, accepted>>

db == <<products, orders, order_items, cart_items, issued>>

\* the tables and the storage buckets the order handlers never touch
elsewhere == <<payment_intents, payments, blobs, avatar>>

\* the account rows, the address book and the passwords the service accepted
accounts == <<users, addresses, accepted>>

(* ------------------------------ bounds -------------------------------- *)

\* longest item list of a create_order request
MaxItems == 2

\* store calls of a run that fail (raise, or answer an insert with no rows)
MaxFaults == 2

(* ------------------------------ domains ------------------------------- *)

Procs == {"w1"}

\* the workers of the server; requests served one at a time all run on "w1"
Workers == {"w1", "w2"}

Users == {"u1", "u2"}

\* the e-mail addresses and the passwords of the accounts
Emails == {"e1", "e2"}

Passwords == {"p0", "p1"}

\* the random salts of get_password_hash
Salts == {"s1", "s2"}

\* a column that holds no password hash
NoHash == [of |-> "none", salt |-> "none"]

\* nothing accepted yet for an e-mail address: no signup, no reset
NoCredentials == [signup |-> "none", reset |-> "none"]

\* rows of the products table; "px" is an id with no row
Products == {"p1", "p2", "p3"}

\* a product sold once whose row has since left the products table: the
\* stock loops of lines 245 and 313 expect such rows (if ....data:)
GoneProduct == "px"

NoOrder == "none"

\* the order already in the store when the run starts
SeedOrderId == "o0"

\* the ids str(uuid.uuid4()) at line 212 may return, each at most once
NewOrderIds == {"o1", "o2"}

\* the ids left to draw when requests are served one at a time
SeqOrderIds == {"o1"}

\* an id with no row in the orders table
MissingOrderId == "ox"

OrderStatus == {"pending", "confirmed", "shipped", "delivered", "cancelled"}

\* order_data["items"] entries after lines 177-178 resolved product id and
\* quantity; price is the price field the client sent along, which may differ
\* from the catalog price
ItemChoices ==
    { [product_id |-> "p1", quantity |-> 1, price |-> 2],
      [product_id |-> "p1", quantity |-> 1, price |-> 0],
      [product_id |-> "p1", quantity |-> 2, price |-> 2],
      [product_id |-> "p1", quantity |-> 0 - 1, price |-> 2],
      [product_id |-> "p2", quantity |-> 2, price |-> 3],
      [product_id |-> "p2", quantity |-> 2, price |-> 9],
      [product_id |-> "p3", quantity |-> 1, price |-> 5],
      [product_id |-> "px", quantity |-> 1, price |-> 1] }

ItemLists == UNION { [1..n -> ItemChoices] : n \in 0..MaxItems }

CancelTargets == {SeedOrderId, MissingOrderId} \cup SeqOrderIds

(* ------------------------- store query helpers ------------------------ *)

\* the select of line 181 without its is_active filter
ProductSelectAnyState(prods, id) ==
    IF id \in DOMAIN prods THEN {id} ELSE {}

\* supabase.table("products").select("*").eq("id", id).eq("is_active", True)
ProductSelectActive(prods, id) ==
    IF id \in DOMAIN prods /\ prods[id].is_active THEN {id} ELSE {}

\* supabase.table("products").select("stock_quantity").eq("id", id)
ProductSelect(prods, id) ==
    IF id \in DOMAIN prods THEN {id} ELSE {}

\* the guard of line 166 never taken
ItemsEmptyIgnored(items) == FALSE

\* if not items
ItemsEmpty(items) == Len(items) = 0

\* the stock check of line 192 off by one
InsufficientStockOffByOne(stock, quantity) == stock + 1 < quantity

\* product["stock_quantity"] < quantity
InsufficientStock(stock, quantity) == stock < quantity

\* line 199 trusting the price field of the request item
UnitPriceFromItem(product, item) == item.price

\* unit_price = product["price"]
UnitPrice(product, item) == product.price

\* line 200 adding the unit price once per item
ItemTotalUnitOnly(unit_price, quantity) == unit_price

\* item_total = unit_price * quantity
ItemTotal(unit_price, quantity) == unit_price * quantity

\* line 249 taking one unit per line item
NewStockOneUnit(current_stock, quantity) == current_stock - 1

\* new_stock = current_stock - item_data["quantity"]
NewStock(current_stock, quantity) == current_stock - quantity

\* line 320 giving back one unit per line item
RestoredStockOneUnit(current_stock, quantity) == current_stock + 1

\* current_stock + item["quantity"]
RestoredStock(current_stock, quantity) == current_stock + quantity

\* the update of lines 250 and 318 under a store that keeps stock at zero or above
ProductUpdateStockFloor(prods, id, s) ==
    [p \in DOMAIN prods |->
        IF p = id THEN [prods[p] EXCEPT !.stock_quantity = IF s < 0 THEN 0 ELSE s]
                  ELSE prods[p]]

\* supabase.table("products").update({"stock_quantity": s}).eq("id", id)
ProductUpdateStock(prods, id, s) ==
    [p \in DOMAIN prods |->
        IF p = id THEN [prods[p] EXCEPT !.stock_quantity = s] ELSE prods[p]]

\* the select of line 283 without its user_id filter
OrderSelectAnyOwner(ords, oid, u) ==
    { o \in ords : o.id = oid }

\* supabase.table("orders").select("*").eq("id", oid).eq("user_id", u)
OrderSelectOwned(ords, oid, u) ==
    { o \in ords : o.id = oid /\ o.user_id = u }

\* the status list of line 294 with cancelled let through
CancellableTwice == {"pending", "confirmed", "cancelled"}

\* order["status"] not in ["pending", "confirmed"]
Cancellable == {"pending", "confirmed"}

\* the update of line 301 also writing a zero total on the cancelled order
OrderUpdateCancelledRefunded(ords, oid) ==
    { IF o.id = oid THEN [o EXCEPT !.status = "cancelled", !.total_amount = 0]
                    ELSE o : o \in ords }

\* supabase.table("orders").update({"status": "cancelled"}).eq("id", oid)
OrderUpdateCancelled(ords, oid) ==
    { IF o.id = oid THEN [o EXCEPT !.status = "cancelled"] ELSE o : o \in ords }

\* the delete of line 238 without its id filter
OrderDeleteUnfiltered(ords, oid) == {}

\* supabase.table("orders").delete().eq("id", oid)
OrderDelete(ords, oid) == { o \in ords : o.id # oid }

\* supabase.table("order_items").select("*").eq("order_id", oid)
OrderItemsSelect(rows, oid) == { r \in rows : r.order_id = oid }

\* supabase.table("cart_items").delete().eq("user_id", u)
CartDelete(cart, u) == { c \in cart : c.user_id # u }

RECURSIVE SetToSeq(_)
\* the rows of a select in the order the store returns them
SetToSeq(S) ==
    IF S = {} THEN <<>>
    ELSE LET x == CHOOSE y \in S : TRUE IN <<x>> \o SetToSeq(S \ {x})

\* the order_items rows built at lines 203-208 and 231-232
ItemRows(data, oid) ==
    { [id |-> <<oid, k>>, order_id |-> oid, product_id |-> data[k].product_id,
       quantity |-> data[k].quantity, unit_price |-> data[k].unit_price]
      : k \in 1..Len(data) }

(* ------------------------------ responses ----------------------------- *)

NoResp == [status |-> 0, detail |-> "none", order_id |-> NoOrder,
           total_amount |-> 0, order_status |-> "none"]

Error(code, detail) == [NoResp EXCEPT !.status = code, !.detail = detail]

NoLoc == [i |-> 0, total_amount |-> 0, order_items_data |-> <<>>,
          order_id |-> NoOrder, current_stock |-> 0, rows |-> <<>>]

NoReq == [op |-> "none", user |-> "u1", items |-> <<>>, order_id |-> NoOrder]

Snapshot == [products |-> products, orders |-> orders,
             order_items |-> order_items, cart_items |-> cart_items]

NoSnapshot == [products |-> <<>>, orders |-> {}, order_items |-> {},
               cart_items |-> {}]

NoPlaced == [order_id |-> NoOrder, products |-> <<>>]

\* users.avatar of a user who has no avatar; a blob, and the public URL that
\* names it, is the bucket, the owner prefix and the random part of its name
NoAvatar == [bucket |-> "none", owner |-> "none", token |-> "none"]

Quiescent == \A q \in Procs : pc[q] = "idle"

\* the answers of the store to a read, update or delete
CallOutcomes == {"ok", "raise"}

\* the answers of the store to an insert
InsertOutcomes == {"ok", "nodata", "raise"}

\* the answers the store may still give, and the count of the failed ones
Answers(outcomes) == IF faults < MaxFaults THEN outcomes ELSE {"ok"}

Answered(out) == faults' = IF out = "ok" THEN faults ELSE faults + 1

\* order_record["id"] = str(uuid.uuid4()): an id never returned before
FreshOrderId == CHOOSE id \in NewOrderIds : id \notin issued

Finish(r, response) ==
    /\ pc' = [pc EXCEPT ![r] = "done"]
    /\ resp' = [resp EXCEPT ![r] = response]


\* the response (SuccessResponse or HTTPException) leaves the handler; the worker
\* is free for the next request
Return(r) ==
    /\ pc[r] = "done"
    /\ pc' = [pc EXCEPT ![r] = "idle"]
    /\ req' = [req EXCEPT ![r] = NoReq]
    /\ loc' = [loc EXCEPT ![r] = NoLoc]
    /\ resp' = [resp EXCEPT ![r] = NoResp]
    /\ pre' = [pre EXCEPT ![r] = NoSnapshot]
    /\ UNCHANGED <<db, lastPlaced, faults>>
    /\ UNCHANGED elsewhere
    /\ UNCHANGED accounts

(* ---------------------------- create_order ---------------------------- *)

\* lines 161-174: read the body, reject an empty item list
CreateOrderBegin(r, u, items) ==
    /\ pc[r] = "idle"
    /\ issued # NewOrderIds
    /\ req' = [req EXCEPT ![r] = [op |-> "create_order", user |-> u,
                                  items |-> items, order_id |-> NoOrder]]
    /\ loc' = [loc EXCEPT ![r] = [NoLoc EXCEPT !.i = 1]]
    /\ pre' = [pre EXCEPT ![r] = Snapshot]
    /\ lastPlaced' = NoPlaced
    /\ IF ItemsEmpty(items)
          THEN Finish(r, Error(400, "Order must contain at least one item"))
          ELSE /\ pc' = [pc EXCEPT ![r] =
                     IF Len(items) = 0 THEN "co_insert_order" ELSE "co_validate"]
               /\ resp' = [resp EXCEPT ![r] = NoResp]
    /\ UNCHANGED <<db, faults>>
    /\ UNCHANGED elsewhere
    /\ UNCHANGED accounts

\* lines 176-208: one turn of the validation loop
CreateOrderValidate(r) ==
    /\ pc[r] = "co_validate"
    /\ LET item == req[r].items[loc[r].i]
           found == ProductSelectActive(products, item.product_id)
       IN \E out \in Answers(CallOutcomes) : Answered(out) /\
            IF out = "raise"
               THEN /\ Finish(r, Error(500, "Failed to create order"))
                    /\ UNCHANGED loc
            ELSE IF found = {}
               THEN /\ Finish(r, Error(404, "Product not found"))
                    /\ UNCHANGED loc
            ELSE IF InsufficientStock(products[item.product_id].stock_quantity,
                                      item.quantity)
               THEN /\ Finish(r, Error(400, "Insufficient stock"))
                    /\ UNCHANGED loc
            ELSE LET unit_price == UnitPrice(products[item.product_id], item)
                     line == [product_id |-> item.product_id,
                              quantity |-> item.quantity,
                              unit_price |-> unit_price]
                 IN /\ loc' = [loc EXCEPT
                          ![r].total_amount = @ + ItemTotal(unit_price, item.quantity),
                          ![r].order_items_data = Append(@, line),
                          ![r].i = @ + 1]
                    /\ pc' = [pc EXCEPT ![r] =
                          IF loc[r].i = Len(req[r].items)
                             THEN "co_insert_order" ELSE "co_validate"]
                    /\ UNCHANGED resp
    /\ UNCHANGED <<db, req, pre, lastPlaced>>
    /\ UNCHANGED elsewhere
    /\ UNCHANGED accounts

\* lines 210-228: insert the order header under a fresh id
CreateOrderInsertOrder(r) ==
    /\ pc[r] = "co_insert_order"
    /\ issued # NewOrderIds
    /\ \E out \in Answers(InsertOutcomes) : Answered(out) /\
         IF out = "raise"
            THEN /\ Finish(r, Error(500, "Failed to create order"))
                 /\ UNCHANGED <<orders, issued, loc>>
         ELSE IF out = "nodata"
            THEN /\ Finish(r, Error(400, "Failed to create order"))
                 /\ UNCHANGED <<orders, issued, loc>>
         ELSE /\ orders' = orders \cup
                    { [id |-> FreshOrderId, user_id |-> req[r].user,
                       status |-> "pending",
                       total_amount |-> loc[r].total_amount] }
              /\ issued' = issued \cup {FreshOrderId}
              /\ loc' = [loc EXCEPT ![r].order_id = FreshOrderId]
              /\ pc' = [pc EXCEPT ![r] = "co_insert_items"]
              /\ UNCHANGED resp
    /\ UNCHANGED <<products, order_items, cart_items, req, pre, lastPlaced>>
    /\ UNCHANGED elsewhere
    /\ UNCHANGED accounts

\* lines 230-236: insert the line items in one call
CreateOrderInsertItems(r) ==
    /\ pc[r] = "co_insert_items"
    /\ \E out \in Answers(InsertOutcomes) : Answered(out) /\
         IF out = "raise"
            THEN /\ Finish(r, Error(500, "Failed to create order"))
                 /\ UNCHANGED <<order_items, loc>>
         ELSE IF out = "nodata" \/ loc[r].order_items_data = <<>>
            THEN /\ pc' = [pc EXCEPT ![r] = "co_rollback"]
                 /\ UNCHANGED <<order_items, loc, resp>>
         ELSE /\ order_items' = order_items \cup
                    ItemRows(loc[r].order_items_data, loc[r].order_id)
              /\ loc' = [loc EXCEPT ![r].i = 1]
              /\ pc' = [pc EXCEPT ![r] = "co_stock_read"]
              /\ UNCHANGED resp
    /\ UNCHANGED <<products, orders, cart_items, issued, req, pre, lastPlaced>>
    /\ UNCHANGED elsewhere
    /\ UNCHANGED accounts

\* lines 237-242: delete the header when the items insert answered no rows
CreateOrderRollback(r) ==
    /\ pc[r] = "co_rollback"
    /\ \E out \in Answers(CallOutcomes) : Answered(out) /\
         IF out = "raise"
            THEN /\ Finish(r, Error(500, "Failed to create order"))
                 /\ UNCHANGED orders
            ELSE /\ orders' = OrderDelete(orders, loc[r].order_id)
                 /\ Finish(r, Error(400, "Failed to create order items"))
    /\ UNCHANGED <<products, order_items, cart_items, issued, req, loc,
                   pre, lastPlaced>>
    /\ UNCHANGED elsewhere
    /\ UNCHANGED accounts

\* lines 245-248: read the current stock of the next line item's product
CreateOrderStockRead(r) ==
    /\ pc[r] = "co_stock_read"
    /\ LET item == loc[r].order_items_data[loc[r].i]
           found == ProductSelect(products, item.product_id)
           last == loc[r].i = Len(loc[r].order_items_data)
       IN \E out \in Answers(CallOutcomes) : Answered(out) /\
            IF out = "raise"
               THEN /\ Finish(r, Error(500, "Failed to create order"))
                    /\ UNCHANGED loc
            ELSE IF found = {}
               THEN /\ loc' = [loc EXCEPT ![r].i = @ + 1]
                    /\ pc' = [pc EXCEPT ![r] =
                          IF last THEN "co_clear_cart" ELSE "co_stock_read"]
                    /\ UNCHANGED resp
            ELSE /\ loc' = [loc EXCEPT ![r].current_stock =
                                products[item.product_id].stock_quantity]
                 /\ pc' = [pc EXCEPT ![r] = "co_stock_write"]
                 /\ UNCHANGED resp
    /\ UNCHANGED <<db, req, pre, lastPlaced>>
    /\ UNCHANGED elsewhere
    /\ UNCHANGED accounts

\* lines 249-252: write the decremented stock back
CreateOrderStockWrite(r) ==
    /\ pc[r] = "co_stock_write"
    /\ LET item == loc[r].order_items_data[loc[r].i]
           last == loc[r].i = Len(loc[r].order_items_data)
       IN \E out \in Answers(CallOutcomes) : Answered(out) /\
            IF out = "raise"
               THEN /\ Finish(r, Error(500, "Failed to create order"))
                    /\ UNCHANGED <<products, loc>>
            ELSE /\ products' = ProductUpdateStock(products, item.product_id,
                                    NewStock(loc[r].current_stock, item.quantity))
                 /\ loc' = [loc EXCEPT ![r].i = @ + 1]
                 /\ pc' = [pc EXCEPT ![r] =
                       IF last THEN "co_clear_cart" ELSE "co_stock_read"]
                 /\ UNCHANGED resp
    /\ UNCHANGED <<orders, order_items, cart_items, issued, req, pre,
                   lastPlaced>>
    /\ UNCHANGED elsewhere
    /\ UNCHANGED accounts

\* lines 254-264: clear the caller's cart and answer
CreateOrderClearCart(r) ==
    /\ pc[r] = "co_clear_cart"
    /\ \E out \in Answers(CallOutcomes) : Answered(out) /\
         IF out = "raise"
            THEN /\ Finish(r, Error(500, "Failed to create order"))
                 /\ UNCHANGED <<cart_items, lastPlaced>>
            ELSE /\ cart_items' = CartDelete(cart_items, req[r].user)
                 /\ Finish(r, [status |-> 200, detail |-> "Order created successfully",
                               order_id |-> loc[r].order_id,
                               total_amount |-> loc[r].total_amount,
                               order_status |-> "pending"])
                 /\ lastPlaced' = [order_id |-> loc[r].order_id,
                                   products |-> pre[r].products]
    /\ UNCHANGED <<products, orders, order_items, issued, req, loc, pre>>
    /\ UNCHANGED elsewhere
    /\ UNCHANGED accounts

(* ---------------------------- cancel_order ---------------------------- *)

\* lines 275-281: the request arrives
CancelOrderBegin(r, u, oid) ==
    /\ pc[r] = "idle"
    /\ req' = [req EXCEPT ![r] = [op |-> "cancel_order", user |-> u,
                                  items |-> <<>>, order_id |-> oid]]
    /\ loc' = [loc EXCEPT ![r] = [NoLoc EXCEPT !.order_id = oid]]
    /\ pre' = [pre EXCEPT ![r] = Snapshot]
    /\ lastPlaced' = IF lastPlaced.order_id = oid THEN lastPlaced ELSE NoPlaced
    /\ pc' = [pc EXCEPT ![r] = "ca_select"]
    /\ resp' = [resp EXCEPT ![r] = NoResp]
    /\ UNCHANGED <<db, faults>>
    /\ UNCHANGED elsewhere
    /\ UNCHANGED accounts

\* lines 283-298: fetch the caller's order and check its status
CancelOrderSelect(r) ==
    /\ pc[r] = "ca_select"
    /\ LET found == OrderSelectOwned(orders, req[r].order_id, req[r].user)
       IN \E out \in Answers(CallOutcomes) : Answered(out) /\
            IF out = "raise"
               THEN Finish(r, Error(500, "Failed to cancel order"))
            ELSE IF found = {}
               THEN Finish(r, Error(404, "Order not found"))
            ELSE IF (CHOOSE o \in found : TRUE).status \notin Cancellable
               THEN Finish(r, Error(400, "Order cannot be cancelled"))
            ELSE /\ pc' = [pc EXCEPT ![r] = "ca_update"]
                 /\ UNCHANGED resp
    /\ UNCHANGED <<db, req, loc, pre, lastPlaced>>
    /\ UNCHANGED elsewhere
    /\ UNCHANGED accounts

\* lines 300-310: set the status to cancelled
CancelOrderUpdate(r) ==
    /\ pc[r] = "ca_update"
    /\ \E out \in Answers(CallOutcomes) : Answered(out) /\
         IF out = "raise"
            THEN /\ Finish(r, Error(500, "Failed to cancel order"))
                 /\ UNCHANGED orders
         ELSE IF { o \in orders : o.id = req[r].order_id } = {}
            THEN /\ Finish(r, Error(400, "Failed to cancel order"))
                 /\ UNCHANGED orders
         ELSE /\ orders' = OrderUpdateCancelled(orders, req[r].order_id)
              /\ pc' = [pc EXCEPT ![r] = "ca_items"]
              /\ UNCHANGED resp
    /\ UNCHANGED <<products, order_items, cart_items, issued, req, loc,
                   pre, lastPlaced>>
    /\ UNCHANGED elsewhere
    /\ UNCHANGED accounts

\* line 313: fetch the order's line items
CancelOrderItems(r) ==
    /\ pc[r] = "ca_items"
    /\ LET rows == SetToSeq(OrderItemsSelect(order_items, req[r].order_id))
       IN \E out \in Answers(CallOutcomes) : Answered(out) /\
            IF out = "raise"
               THEN /\ Finish(r, Error(500, "Failed to cancel order"))
                    /\ UNCHANGED loc
            ELSE IF rows = <<>>
               THEN /\ Finish(r, [NoResp EXCEPT !.status = 200,
                                     !.detail = "Order cancelled successfully",
                                     !.order_id = req[r].order_id,
                                     !.order_status = "cancelled"])
                    /\ UNCHANGED loc
            ELSE /\ loc' = [loc EXCEPT ![r].rows = rows, ![r].i = 1]
                 /\ pc' = [pc EXCEPT ![r] = "ca_stock_read"]
                 /\ UNCHANGED resp
    /\ UNCHANGED <<db, req, pre, lastPlaced>>
    /\ UNCHANGED elsewhere
    /\ UNCHANGED accounts

\* lines 315-318: read the current stock of the next line item's product
CancelOrderStockRead(r) ==
    /\ pc[r] = "ca_stock_read"
    /\ LET item == loc[r].rows[loc[r].i]
           found == ProductSelect(products, item.product_id)
           last == loc[r].i = Len(loc[r].rows)
       IN \E out \in Answers(CallOutcomes) : Answered(out) /\
            IF out = "raise"
               THEN /\ Finish(r, Error(500, "Failed to cancel order"))
                    /\ UNCHANGED loc
            ELSE IF found = {}
               THEN /\ loc' = [loc EXCEPT ![r].i = @ + 1]
                    /\ IF last
                          THEN Finish(r, [NoResp EXCEPT !.status = 200,
                                     !.detail = "Order cancelled successfully",
                                     !.order_id = req[r].order_id,
                                     !.order_status = "cancelled"])
                          ELSE /\ pc' = [pc EXCEPT ![r] = "ca_stock_read"]
                               /\ UNCHANGED resp
            ELSE /\ loc' = [loc EXCEPT ![r].current_stock =
                                products[item.product_id].stock_quantity]
                 /\ pc' = [pc EXCEPT ![r] = "ca_stock_write"]
                 /\ UNCHANGED resp
    /\ UNCHANGED <<db, req, pre, lastPlaced>>
    /\ UNCHANGED elsewhere
    /\ UNCHANGED accounts

\* lines 319-326: write the restored stock back; answer after the last item
CancelOrderStockWrite(r) ==
    /\ pc[r] = "ca_stock_write"
    /\ LET item == loc[r].rows[loc[r].i]
           last == loc[r].i = Len(loc[r].rows)
       IN \E out \in Answers(CallOutcomes) : Answered(out) /\
            IF out = "raise"
               THEN /\ Finish(r, Error(500, "Failed to cancel order"))
                    /\ UNCHANGED <<products, loc>>
            ELSE /\ products' = ProductUpdateStock(products, item.product_id,
                                    RestoredStock(loc[r].current_stock, item.quantity))
                 /\ loc' = [loc EXCEPT ![r].i = @ + 1]
                 /\ IF last
                       THEN Finish(r, [NoResp EXCEPT !.status = 200,
                                     !.detail = "Order cancelled successfully",
                                     !.order_id = req[r].order_id,
                                     !.order_status = "cancelled"])
                       ELSE /\ pc' = [pc EXCEPT ![r] = "ca_stock_read"]
                            /\ UNCHANGED resp
    /\ UNCHANGED <<orders, order_items, cart_items, issued, req, pre,
                   lastPlaced>>
    /\ UNCHANGED elsewhere
    /\ UNCHANGED accounts

(* -------------------------------- Init -------------------------------- *)

\* the catalog when the run starts
InitProducts ==
    [p \in Products |->
          CASE p = "p1" -> [price |-> 2, stock_quantity |-> 1, is_active |-> TRUE]
            [] p = "p2" -> [price |-> 3, stock_quantity |-> 2, is_active |-> TRUE]
            [] OTHER    -> [price |-> 5, stock_quantity |-> 1, is_active |-> FALSE]]

\* the store when the run starts, with the order ids in spent already drawn
InitStore(spent) ==
    /\ products = InitProducts
    /\ \E s \in {"confirmed", "shipped", "delivered"} :
          orders = { [id |-> SeedOrderId, user_id |-> "u2", status |-> s,
                      total_amount |-> 7] }
    /\ order_items = { [id |-> <<SeedOrderId, 1>>, order_id |-> SeedOrderId,
                        product_id |-> "p2", quantity |-> 1, unit_price |-> 3],
                       [id |-> <<SeedOrderId, 2>>, order_id |-> SeedOrderId,
                        product_id |-> GoneProduct, quantity |-> 1,
                        unit_price |-> 4] }
    /\ cart_items = { [user_id |-> "u1", product_id |-> "p1", quantity |-> 1],
                      [user_id |-> "u2", product_id |-> "p2", quantity |-> 1] }
    /\ issued = spent
    /\ pc = [r \in Workers |-> "idle"]
    /\ req = [r \in Workers |-> NoReq]
    /\ loc = [r \in Workers |-> NoLoc]
    /\ resp = [r \in Workers |-> NoResp]
    /\ pre = [r \in Workers |-> NoSnapshot]
    /\ lastPlaced = NoPlaced
    /\ faults = 0
    /\ payment_intents = {}
    /\ payments = {}
    /\ blobs = {}
    /\ avatar = [u \in Users |-> NoAvatar]
    /\ users = {}
    /\ addresses = {}
    /\ accepted = [e \in Emails |-> NoCredentials]

Init == InitStore(NewOrderIds \ SeqOrderIds)

(* --------------------------- specification ---------------------------- *)

\* requests are served one at a time: a request starts when no other runs
Next ==
    \E r \in Procs :
       \/ Quiescent /\ \E u \in Users, items \in ItemLists : CreateOrderBegin(r, u, items)
       \/ CreateOrderValidate(r)
       \/ CreateOrderInsertOrder(r)
       \/ CreateOrderInsertItems(r)
       \/ CreateOrderRollback(r)
       \/ CreateOrderStockRead(r)
       \/ CreateOrderStockWrite(r)
       \/ CreateOrderClearCart(r)
       \/ Quiescent /\ \E u \in Users, oid \in CancelTargets : CancelOrderBegin(r, u, oid)
       \/ CancelOrderSelect(r)
       \/ CancelOrderUpdate(r)
       \/ CancelOrderItems(r)
       \/ CancelOrderStockRead(r)
       \/ CancelOrderStockWrite(r)
       \/ Return(r)

Spec == Init /\ [][Next]_vars

TypeOK ==
    /\ \A o \in orders : o.status \in OrderStatus /\ o.user_id \in Users
    /\ \A r \in Procs : resp[r].status \in {0, 200, 400, 404, 500}

(* ------------------- catalog updates and payments --------------------- *)

\* the item lists of the orders placed between catalog updates and payments
ShopItemLists ==
    { <<[product_id |-> "p1", quantity |-> 1, price |-> 2]>>,
      <<[product_id |-> "p1", quantity |-> 1, price |-> 0],
        [product_id |-> "p2", quantity |-> 2, price |-> 3]>> }

\* product_update.dict(exclude_unset=True): the fields the admin sent
NoUpdate == [f \in {} |-> 0]

UpdateChoices == { NoUpdate, [price |-> 4] }

UpdateTargets == {"p1", GoneProduct}

\* the ids f"pi_{uuid.uuid4().hex[:24]}" and str(uuid.uuid4()) may return
IntentIds == {"pi1"}

PaymentIds == {"pay1"}

NoIntent == "none"

\* payment_data of create_payment_intent: amount and order_id
IntentChoices ==
    { [amount |-> 0, order_id |-> NoOrder],
      [amount |-> 7, order_id |-> SeedOrderId],
      [amount |-> 2, order_id |-> "o1"] }

\* payment_data of confirm_payment: payment_intent_id and order_id
ConfirmChoices ==
    { [payment_intent_id |-> NoIntent, order_id |-> SeedOrderId],
      [payment_intent_id |-> "pi1", order_id |-> NoOrder],
      [payment_intent_id |-> "pi1", order_id |-> SeedOrderId],
      [payment_intent_id |-> "pi1", order_id |-> "o1"] }

\* supabase.table("products").update(update_data).eq("id", id)
ProductUpdate(prods, id, update_data) ==
    [p \in DOMAIN prods |->
        IF p = id
           THEN [f \in DOMAIN prods[p] |->
                   IF f \in DOMAIN update_data THEN update_data[f] ELSE prods[p][f]]
           ELSE prods[p]]

\* supabase.table("payment_intents").select("*").eq("id", id)
IntentSelect(rows, id) == { x \in rows : x.id = id }

\* supabase.table("payment_intents").update({"status": "succeeded"}).eq("id", id)
IntentUpdateSucceeded(rows, id) ==
    { IF x.id = id THEN [x EXCEPT !.status = "succeeded"] ELSE x : x \in rows }

\* supabase.table("orders").update({"status": "confirmed", ...}).eq("id", oid)
OrderUpdateConfirmed(ords, oid) ==
    { IF o.id = oid THEN [o EXCEPT !.status = "confirmed"] ELSE o : o \in ords }

\* the caller of the admin-only routes
Admin == "u1"

ShopReq(op, u) == [NoReq EXCEPT !.op = op, !.user = u]

\* products.py 302-338: update_product, one store call
UpdateProduct(r, id, update_data) ==
    /\ pc[r] = "idle"
    /\ req' = [req EXCEPT ![r] = ShopReq("update_product", Admin)]
    /\ pre' = [pre EXCEPT ![r] = Snapshot]
    /\ IF update_data = NoUpdate
          THEN /\ Finish(r, Error(400, "No data to update"))
               /\ UNCHANGED <<products, faults>>
          ELSE \E out \in Answers(CallOutcomes) : Answered(out) /\
                 IF out = "raise"
                    THEN /\ Finish(r, Error(500, "Failed to update product"))
                         /\ UNCHANGED products
                 ELSE IF id \notin DOMAIN products
                    THEN /\ Finish(r, Error(404,
                                 "Product not found or failed to update"))
                         /\ UNCHANGED products
                 ELSE /\ products' = ProductUpdate(products, id, update_data)
                      /\ Finish(r, [NoResp EXCEPT !.status = 200,
                                   !.detail = "Product updated successfully"])
    /\ UNCHANGED <<orders, order_items, cart_items, issued, loc, lastPlaced>>
    /\ UNCHANGED elsewhere
    /\ UNCHANGED accounts

\* payments.py 19-29: read the body, reject a missing or non-positive amount
CreateIntentBegin(r, u, data) ==
    /\ pc[r] = "idle"
    /\ \E id \in IntentIds : IntentSelect(payment_intents, id) = {}
    /\ req' = [req EXCEPT ![r] = [ShopReq("create_payment_intent", u)
                                     EXCEPT !.order_id = data.order_id]]
    /\ loc' = [loc EXCEPT ![r] = [NoLoc EXCEPT !.total_amount = data.amount]]
    /\ pre' = [pre EXCEPT ![r] = Snapshot]
    /\ IF data.amount <= 0
          THEN Finish(r, Error(400, "Valid amount is required"))
          ELSE /\ pc' = [pc EXCEPT ![r] = "pi_insert"]
               /\ resp' = [resp EXCEPT ![r] = NoResp]
    /\ UNCHANGED <<db, lastPlaced, faults>>
    /\ UNCHANGED elsewhere
    /\ UNCHANGED accounts

\* payments.py 34-56: insert the intent; the answer of the insert is not read
CreateIntentInsert(r) ==
    /\ pc[r] = "pi_insert"
    /\ LET id == CHOOSE x \in IntentIds : IntentSelect(payment_intents, x) = {}
           payment_intent == [id |-> id, amount |-> loc[r].total_amount,
                              status |-> "requires_payment_method",
                              order_id |-> req[r].order_id]
       IN \E out \in Answers(InsertOutcomes) : Answered(out) /\
            IF out = "raise"
               THEN /\ Finish(r, Error(500, "Failed to create payment intent"))
                    /\ UNCHANGED payment_intents
               ELSE /\ payment_intents' =
                         IF out = "ok" THEN payment_intents \cup {payment_intent}
                                       ELSE payment_intents
                    /\ Finish(r, [NoResp EXCEPT !.status = 200,
                                 !.detail = "Payment intent created successfully",
                                 !.total_amount = loc[r].total_amount])
    /\ UNCHANGED <<db, req, loc, pre, lastPlaced, payments, blobs, avatar>>
    /\ UNCHANGED accounts

\* payments.py 74-82: read the body, reject a missing payment_intent_id
ConfirmPaymentBegin(r, u, data) ==
    /\ pc[r] = "idle"
    /\ \E id \in PaymentIds : \A x \in payments : x.id # id
    /\ req' = [req EXCEPT ![r] = [op |-> "confirm_payment", user |-> u,
                                  items |-> <<>>, order_id |-> data.order_id,
                                  payment_intent_id |-> data.payment_intent_id]]
    /\ loc' = [loc EXCEPT ![r] = NoLoc]
    /\ pre' = [pre EXCEPT ![r] = Snapshot]
    /\ IF data.payment_intent_id = NoIntent
          THEN Finish(r, Error(400, "Payment intent ID is required"))
          ELSE /\ pc' = [pc EXCEPT ![r] = "cp_select"]
               /\ resp' = [resp EXCEPT ![r] = NoResp]
    /\ UNCHANGED <<db, lastPlaced, faults>>
    /\ UNCHANGED elsewhere
    /\ UNCHANGED accounts

\* payments.py 85-91: fetch the intent
ConfirmPaymentSelect(r) ==
    /\ pc[r] = "cp_select"
    /\ LET found == IntentSelect(payment_intents, req[r].payment_intent_id)
       IN \E out \in Answers(CallOutcomes) : Answered(out) /\
            IF out = "raise"
               THEN /\ Finish(r, Error(500, "Failed to confirm payment"))
                    /\ UNCHANGED loc
            ELSE IF found = {}
               THEN /\ Finish(r, Error(404, "Payment intent not found"))
                    /\ UNCHANGED loc
            ELSE /\ loc' = [loc EXCEPT ![r].rows = SetToSeq(found)]
                 /\ pc' = [pc EXCEPT ![r] = "cp_insert"]
                 /\ UNCHANGED resp
    /\ UNCHANGED <<db, req, pre, lastPlaced>>
    /\ UNCHANGED elsewhere
    /\ UNCHANGED accounts

\* payments.py 96-114: record the payment with the amount of the intent
ConfirmPaymentInsert(r) ==
    /\ pc[r] = "cp_insert"
    /\ LET id == CHOOSE x \in PaymentIds : \A y \in payments : y.id # x
           payment_record == [id |-> id, user_id |-> req[r].user,
                              order_id |-> req[r].order_id,
                              payment_intent_id |-> req[r].payment_intent_id,
                              amount |-> loc[r].rows[1].amount,
                              status |-> "succeeded"]
       IN \E out \in Answers(InsertOutcomes) : Answered(out) /\
            IF out = "raise"
               THEN /\ Finish(r, Error(500, "Failed to confirm payment"))
                    /\ UNCHANGED payments
            ELSE IF out = "nodata"
               THEN /\ Finish(r, Error(400, "Failed to record payment"))
                    /\ UNCHANGED payments
            ELSE /\ payments' = payments \cup {payment_record}
                 /\ pc' = [pc EXCEPT ![r] =
                       IF req[r].order_id # NoOrder THEN "cp_order" ELSE "cp_intent"]
                 /\ UNCHANGED resp
    /\ UNCHANGED <<db, req, loc, pre, lastPlaced, payment_intents, blobs, avatar>>
    /\ UNCHANGED accounts

\* payments.py 117-123: set the order named by the request to confirmed
ConfirmPaymentOrder(r) ==
    /\ pc[r] = "cp_order"
    /\ \E out \in Answers(CallOutcomes) : Answered(out) /\
          IF out = "raise"
             THEN /\ Finish(r, Error(500, "Failed to confirm payment"))
                  /\ UNCHANGED orders
             ELSE /\ orders' = OrderUpdateConfirmed(orders, req[r].order_id)
                  /\ pc' = [pc EXCEPT ![r] = "cp_intent"]
                  /\ UNCHANGED resp
    /\ UNCHANGED <<products, order_items, cart_items, issued, req, loc, pre,
                   lastPlaced>>
    /\ UNCHANGED elsewhere
    /\ UNCHANGED accounts

\* payments.py 126-137: mark the intent succeeded and answer
ConfirmPaymentIntent(r) ==
    /\ pc[r] = "cp_intent"
    /\ \E out \in Answers(CallOutcomes) : Answered(out) /\
          IF out = "raise"
             THEN /\ Finish(r, Error(500, "Failed to confirm payment"))
                  /\ UNCHANGED payment_intents
             ELSE /\ payment_intents' =
                       IntentUpdateSucceeded(payment_intents,
                                             req[r].payment_intent_id)
                  /\ Finish(r, [NoResp EXCEPT !.status = 200,
                               !.detail = "Payment confirmed successfully",
                               !.order_id = req[r].order_id])
    /\ UNCHANGED <<db, req, loc, pre, lastPlaced, payments, blobs, avatar>>
    /\ UNCHANGED accounts

\* orders, catalog updates and payments, served one at a time
NextShop ==
    \E r \in Procs :
       \/ Quiescent /\ \E u \in Users, items \in ShopItemLists : CreateOrderBegin(r, u, items)
       \/ CreateOrderValidate(r)
       \/ CreateOrderInsertOrder(r)
       \/ CreateOrderInsertItems(r)
       \/ CreateOrderRollback(r)
       \/ CreateOrderStockRead(r)
       \/ CreateOrderStockWrite(r)
       \/ CreateOrderClearCart(r)
       \/ Quiescent /\ \E u \in Users, oid \in CancelTargets : CancelOrderBegin(r, u, oid)
       \/ CancelOrderSelect(r)
       \/ CancelOrderUpdate(r)
       \/ CancelOrderItems(r)
       \/ CancelOrderStockRead(r)
       \/ CancelOrderStockWrite(r)
       \/ Quiescent /\ \E id \in UpdateTargets, d \in UpdateChoices : UpdateProduct(r, id, d)
       \/ Quiescent /\ \E u \in Users, d \in IntentChoices : CreateIntentBegin(r, u, d)
       \/ CreateIntentInsert(r)
       \/ Quiescent /\ \E u \in Users, d \in ConfirmChoices : ConfirmPaymentBegin(r, u, d)
       \/ ConfirmPaymentSelect(r)
       \/ ConfirmPaymentInsert(r)
       \/ ConfirmPaymentOrder(r)
       \/ ConfirmPaymentIntent(r)
       \/ Return(r)

\* the store of Init with its seed order paid for
InitShop == Init /\ \A o \in orders : o.status = "confirmed"

SpecShop == InitShop /\ [][NextShop]_vars

(* ------------------------ concurrent requests ------------------------- *)

\* the item lists of two create_order requests in flight at the same time
ConcItemLists ==
    { <<[product_id |-> "p1", quantity |-> 1, price |-> 2]>>,
      <<[product_id |-> "p2", quantity |-> 2, price |-> 3]>>,
      <<[product_id |-> "p2", quantity |-> 1, price |-> 3]>> }

\* every order id is still to be drawn and the seed order is paid for
InitConc == InitStore({}) /\ \A o \in orders : o.status = "confirmed"

\* the orders two cancel_order requests in flight may name
ConcCancelTargets == {SeedOrderId, "o1"}

\* each worker serves one create_order or one cancel_order; their store calls
\* interleave freely
NextConc ==
    \E r \in Workers :
       \/ \E u \in Users, items \in ConcItemLists : CreateOrderBegin(r, u, items)
       \/ CreateOrderValidate(r)
       \/ CreateOrderInsertOrder(r)
       \/ CreateOrderInsertItems(r)
       \/ CreateOrderRollback(r)
       \/ CreateOrderStockRead(r)
       \/ CreateOrderStockWrite(r)
       \/ CreateOrderClearCart(r)
       \/ \E u \in Users, oid \in ConcCancelTargets : CancelOrderBegin(r, u, oid)
       \/ CancelOrderSelect(r)
       \/ CancelOrderUpdate(r)
       \/ CancelOrderItems(r)
       \/ CancelOrderStockRead(r)
       \/ CancelOrderStockWrite(r)

SpecConc == InitConc /\ [][NextConc]_vars

(* ------------------------------ avatars ------------------------------- *)

\* self.max_file_size = 5 * 1024 * 1024
max_file_size == 5 * 1024 * 1024

\* the size limit written out in upload_avatar of auth.py
AuthMaxSize == 5 * 1024 * 1024

\* self.allowed_types
allowed_types == {"image/jpeg", "image/png", "image/webp", "image/gif"}

ContentTypes == {"image/jpeg", "image/bmp", "text/plain"}

\* content types with file.content_type.startswith('image/')
ImagePrefixed == { t \in ContentTypes : t # "text/plain" }

ImageSizes == {0, 1, max_file_size, max_file_size + 1}

\* the data of an upload: its length in bytes (after base64 decoding), the
\* declared content type, and whether the image library can decode it
Images ==
    { x \in [bytes : ImageSizes, content_type : ContentTypes, valid : BOOLEAN] :
         x.valid => x.bytes > 0 }

\* POST /users/avatar/upload, /users/avatar/upload-base64,
\* /auth/upload-avatar, /auth/update-avatar-base64
StorageEntries == {"users_upload", "users_upload_base64"}

AuthEntries == {"auth_upload", "auth_base64"}

Entries == StorageEntries \cup AuthEntries

\* self.bucket_name, and the bucket written out in process_and_upload_avatar
BucketOf(entry) ==
    IF entry \in AuthEntries THEN "ecommerce-bucket" ELSE "Ecommerce-Storage"

\* the random parts uuid.uuid4().hex of blob names, each drawn at most once
AvatarTokens == {"t1", "t2"}

AvatarResp(code, detail, url) ==
    [status |-> code, detail |-> detail, avatar_url |-> url]

AvatarError(code, detail) == AvatarResp(code, detail, NoAvatar)

Pass == AvatarError(0, "none")

\* _validate_image without its decoding check and with no _resize_image
ValidateImageNoDecode(image, content_type) ==
    IF image.bytes > max_file_size
       THEN AvatarError(413, "File too large. Maximum size is 5MB")
    ELSE IF content_type \notin allowed_types
       THEN AvatarError(400, "Invalid file type")
    ELSE Pass

\* _validate_image followed by _resize_image
ValidateImage(image, content_type) ==
    IF image.bytes > max_file_size
       THEN AvatarError(413, "File too large. Maximum size is 5MB")
    ELSE IF content_type \notin allowed_types
       THEN AvatarError(400, "Invalid file type")
    ELSE IF ~ image.valid
       THEN AvatarError(400, "Invalid image file")
    ELSE Pass

\* what each entry point decides before its first storage call
EntryCheck(entry, image) ==
    CASE entry = "users_upload" -> ValidateImage(image, image.content_type)
      [] entry = "users_upload_base64" -> ValidateImage(image, "image/jpeg")
      [] entry = "auth_upload" ->
            IF image.content_type \notin ImagePrefixed
               THEN AvatarError(400, "Only image files are allowed")
            ELSE IF image.bytes > AuthMaxSize
               THEN AvatarError(400, "File size must be less than 5MB")
            ELSE IF ~ image.valid
               THEN AvatarError(500, "Avatar upload failed: Avatar processing failed")
            ELSE Pass
      [] OTHER ->
            IF image.bytes = 0
               THEN AvatarError(400, "Image data is required")
            ELSE IF ~ image.valid
               THEN AvatarError(500, "Avatar update failed: Avatar processing failed")
            ELSE Pass

\* storage.from_(bucket).list("avatars") filtered by name.startswith(f"{user_id}_")
UserFiles(files, bucket, u) == { b \in files : b.bucket = bucket /\ b.owner = u }

\* the except clause of delete_user_avatar handing the exception on
DeleteUserAvatarRaisesThrough(out) == out = "raise"

\* delete_user_avatar lets no failure out: it prints a warning and returns False
DeleteUserAvatarRaises(out) == FALSE

\* the check of upload_response.error left out
UploadFailedOnlyRaise(out) == out = "raise"

\* the upload raised, or answered with an error result
UploadFailed(out) == out # "ok"

\* the detail of the HTTP 500 that reports a failed blob upload
UploadFailure(entry, out) ==
    CASE entry = "auth_upload" -> "Avatar upload failed: Avatar processing failed"
      [] entry = "auth_base64" -> "Avatar update failed: Avatar processing failed"
      [] out = "error" -> "Upload failed"
      [] entry = "users_upload" -> "Upload error"
      [] OTHER -> "Base64 upload error"

\* the detail of the error that reports a failed write of users.avatar
UpdateFailure(entry, out) ==
    CASE out = "nodata" /\ entry \in StorageEntries -> "Failed to update user avatar"
      [] out = "nodata" -> "Failed to update avatar"
      [] entry = "auth_upload" -> "Avatar upload failed"
      [] entry = "auth_base64" -> "Avatar update failed"
      [] OTHER -> "Failed to upload avatar"

\* the message of the answer that carries the new URL
SuccessMessage(entry) ==
    IF entry = "auth_base64" THEN "Avatar updated successfully"
                             ELSE "Avatar uploaded successfully"

\* the answers of the storage service to list, remove and upload
StorageOutcomes == {"ok", "error", "raise"}

AvatarLoc == [list_out |-> "none", remove_out |-> "none", upload_out |-> "none",
              update_out |-> "none", user_files |-> {}, file |-> NoAvatar]

AvatarSnapshot == [blobs |-> blobs, avatar |-> avatar, faults |-> faults]

\* the step that follows delete_user_avatar: the upload of the new blob, or
\* in DELETE /users/avatar the write of null to users.avatar
AfterCleanup(op) == IF op = "delete_avatar" THEN "av_clear" ELSE "av_upload"

\* the handler up to its first storage call
AvatarBegin(r, u, entry, image) ==
    /\ pc[r] = "idle"
    /\ AvatarTokens \ issued # {}
    /\ req' = [req EXCEPT ![r] = [op |-> entry, user |-> u, image |-> image]]
    /\ loc' = [loc EXCEPT ![r] = AvatarLoc]
    /\ pre' = [pre EXCEPT ![r] = AvatarSnapshot]
    /\ IF EntryCheck(entry, image) # Pass
          THEN Finish(r, EntryCheck(entry, image))
          ELSE /\ pc' = [pc EXCEPT ![r] =
                     IF entry \in StorageEntries THEN "av_list" ELSE "av_upload"]
               /\ resp' = [resp EXCEPT ![r] = NoResp]
    /\ UNCHANGED <<db, lastPlaced, faults>>
    /\ UNCHANGED elsewhere
    /\ UNCHANGED accounts

\* storage.py 193-196: list the avatar folder and pick the owner's blobs
AvatarList(r) ==
    /\ pc[r] = "av_list"
    /\ \E out \in Answers(StorageOutcomes \ {"error"}) : Answered(out) /\
          LET user_files == IF out = "ok"
                               THEN UserFiles(blobs, BucketOf(req[r].op), req[r].user)
                               ELSE {}
          IN IF DeleteUserAvatarRaises(out)
                THEN /\ Finish(r, AvatarError(500, "Upload error"))
                     /\ loc' = [loc EXCEPT ![r].list_out = out]
                ELSE /\ loc' = [loc EXCEPT ![r].list_out = out,
                                           ![r].user_files = user_files]
                     /\ pc' = [pc EXCEPT ![r] =
                           IF user_files # {} THEN "av_remove"
                                              ELSE AfterCleanup(req[r].op)]
                     /\ UNCHANGED resp
    /\ UNCHANGED <<db, req, pre, lastPlaced>>
    /\ UNCHANGED elsewhere
    /\ UNCHANGED accounts

\* storage.py 198-205: remove the blobs listed
AvatarRemove(r) ==
    /\ pc[r] = "av_remove"
    /\ \E out \in Answers(StorageOutcomes) : Answered(out) /\
          /\ blobs' = IF out = "ok" THEN blobs \ loc[r].user_files ELSE blobs
          /\ loc' = [loc EXCEPT ![r].remove_out = out]
          /\ IF DeleteUserAvatarRaises(out)
                THEN Finish(r, AvatarError(500, "Upload error"))
                ELSE /\ pc' = [pc EXCEPT ![r] = AfterCleanup(req[r].op)]
                     /\ UNCHANGED resp
    /\ UNCHANGED <<db, req, pre, lastPlaced, payment_intents, payments, avatar>>
    /\ UNCHANGED accounts

\* storage.py 116-137 and auth.py 60-82: store the blob under a fresh name and
\* build its public URL
AvatarUpload(r) ==
    /\ pc[r] = "av_upload"
    /\ LET token == CHOOSE t \in AvatarTokens : t \notin issued
           file == [bucket |-> BucketOf(req[r].op), owner |-> req[r].user,
                    token |-> token]
       IN \E out \in Answers(StorageOutcomes) : Answered(out) /\
            /\ loc' = [loc EXCEPT ![r].upload_out = out, ![r].file = file]
            /\ IF UploadFailed(out)
                  THEN /\ Finish(r, AvatarError(500, UploadFailure(req[r].op, out)))
                       /\ UNCHANGED <<blobs, issued>>
                  ELSE /\ blobs' = IF out = "ok" THEN blobs \cup {file} ELSE blobs
                       /\ issued' = issued \cup {token}
                       /\ pc' = [pc EXCEPT ![r] = "av_update"]
                       /\ UNCHANGED resp
    /\ UNCHANGED <<products, orders, order_items, cart_items, req, pre,
                   lastPlaced, payment_intents, payments, avatar>>
    /\ UNCHANGED accounts

\* users.py 381-401 and auth.py 124-138: write the URL to users.avatar
AvatarUpdate(r) ==
    /\ pc[r] = "av_update"
    /\ \E out \in Answers(InsertOutcomes) : Answered(out) /\
          /\ loc' = [loc EXCEPT ![r].update_out = out]
          /\ IF out = "raise"
                THEN /\ Finish(r, AvatarError(500, UpdateFailure(req[r].op, out)))
                     /\ UNCHANGED avatar
             ELSE IF out = "nodata"
                THEN /\ Finish(r, AvatarError(400, UpdateFailure(req[r].op, out)))
                     /\ UNCHANGED avatar
             ELSE /\ avatar' = [avatar EXCEPT ![req[r].user] = loc[r].file]
                  /\ Finish(r, AvatarResp(200, SuccessMessage(req[r].op),
                                          loc[r].file))
    /\ UNCHANGED <<db, req, pre, lastPlaced, payment_intents, payments, blobs>>
    /\ UNCHANGED accounts

\* users.py 448-456: DELETE /users/avatar starts with delete_user_avatar
DeleteAvatarBegin(r, u) ==
    /\ pc[r] = "idle"
    /\ req' = [req EXCEPT ![r] = [op |-> "delete_avatar", user |-> u]]
    /\ loc' = [loc EXCEPT ![r] = AvatarLoc]
    /\ pre' = [pre EXCEPT ![r] = AvatarSnapshot]
    /\ pc' = [pc EXCEPT ![r] = "av_list"]
    /\ resp' = [resp EXCEPT ![r] = NoResp]
    /\ UNCHANGED <<db, lastPlaced, faults>>
    /\ UNCHANGED elsewhere
    /\ UNCHANGED accounts

\* users.py 458-481: write null to users.avatar and answer
AvatarClear(r) ==
    /\ pc[r] = "av_clear"
    /\ \E out \in Answers(InsertOutcomes) : Answered(out) /\
          /\ loc' = [loc EXCEPT ![r].update_out = out]
          /\ IF out = "raise"
                THEN /\ Finish(r, AvatarError(500, "Failed to delete avatar"))
                     /\ UNCHANGED avatar
             ELSE IF out = "nodata"
                THEN /\ Finish(r, AvatarError(400,
                            "Failed to delete avatar from user record"))
                     /\ UNCHANGED avatar
             ELSE /\ avatar' = [avatar EXCEPT ![req[r].user] = NoAvatar]
                  /\ Finish(r, AvatarResp(200, "Avatar deleted successfully",
                                          NoAvatar))
    /\ UNCHANGED <<db, req, pre, lastPlaced, payment_intents, payments, blobs>>
    /\ UNCHANGED accounts

InitAvatar == InitStore(NewOrderIds) /\ \A o \in orders : o.status = "confirmed"

\* avatar uploads and deletes served one at a time
NextAvatar ==
    \E r \in Procs :
       \/ \E u \in Users, entry \in Entries, image \in Images : AvatarBegin(r, u, entry, image)
       \/ AvatarList(r)
       \/ AvatarRemove(r)
       \/ AvatarUpload(r)
       \/ AvatarUpdate(r)
       \/ \E u \in Users : DeleteAvatarBegin(r, u)
       \/ AvatarClear(r)
       \/ Return(r)

SpecAvatar == InitAvatar /\ [][NextAvatar]_vars

(* ------------------- signup, login and password reset ------------------ *)

\* get_password_hash: a salted one-way hash; it is equal to no password
get_password_hash(password, salt) == [of |-> password, salt |-> salt]

\* verify_password: whether the hash was made from the plain password
verify_password(plain_password, hashed_password) ==
    hashed_password.of = plain_password

\* supabase.table("users").select(...).eq("email", email)
UserSelect(rows, email) == { u \in rows : u.email = email }

\* user_data of signup_user: the hash goes to the column password_hash
UserRow(email, hashed_password) ==
    [email |-> email, password_hash |-> hashed_password, password |-> NoHash,
     is_active |-> TRUE]

\* supabase.table("users").update({"password": hashed_password}).eq("id", user_id)
UserUpdatePassword(rows, email, hashed_password) ==
    { IF u.email = email THEN [u EXCEPT !.password = hashed_password] ELSE u
      : u \in rows }

AuthResp(code, detail) == [status |-> code, detail |-> detail]

AuthLoc == [select_out |-> "none", write_out |-> "none"]

AuthSnapshot == [users |-> users, faults |-> faults]

\* auth.py 191-196: POST /signup with no avatar in the body
SignupBegin(r, email, password) ==
    /\ pc[r] = "idle"
    /\ req' = [req EXCEPT ![r] = [op |-> "signup_user", email |-> email, password |-> password]]
    /\ loc' = [loc EXCEPT ![r] = AuthLoc]
    /\ pre' = [pre EXCEPT ![r] = AuthSnapshot]
    /\ pc' = [pc EXCEPT ![r] = "su_select"]
    /\ resp' = [resp EXCEPT ![r] = NoResp]
    /\ UNCHANGED <<db, lastPlaced, faults>>
    /\ UNCHANGED elsewhere
    /\ UNCHANGED accounts

\* auth.py 293-298: POST /login
LoginBegin(r, email, password) ==
    /\ pc[r] = "idle"
    /\ req' = [req EXCEPT ![r] = [op |-> "login_user", email |-> email, password |-> password]]
    /\ loc' = [loc EXCEPT ![r] = AuthLoc]
    /\ pre' = [pre EXCEPT ![r] = AuthSnapshot]
    /\ pc' = [pc EXCEPT ![r] = "li_select"]
    /\ resp' = [resp EXCEPT ![r] = NoResp]
    /\ UNCHANGED <<db, lastPlaced, faults>>
    /\ UNCHANGED elsewhere
    /\ UNCHANGED accounts

\* auth.py 381-386: POST /reset-password
ResetBegin(r, email, new_password) ==
    /\ pc[r] = "idle"
    /\ req' = [req EXCEPT ![r] = [op |-> "reset_password", email |-> email, password |-> new_password]]
    /\ loc' = [loc EXCEPT ![r] = AuthLoc]
    /\ pre' = [pre EXCEPT ![r] = AuthSnapshot]
    /\ pc' = [pc EXCEPT ![r] = "rp_select"]
    /\ resp' = [resp EXCEPT ![r] = NoResp]
    /\ UNCHANGED <<db, lastPlaced, faults>>
    /\ UNCHANGED elsewhere
    /\ UNCHANGED accounts

\* auth.py 198-203: an e-mail address that has a row is refused
SignupSelect(r) ==
    /\ pc[r] = "su_select"
    /\ \E out \in Answers(CallOutcomes) : Answered(out) /\
          /\ loc' = [loc EXCEPT ![r].select_out = out]
          /\ IF out = "raise"
                THEN Finish(r, AuthResp(500, "Registration failed"))
             ELSE IF UserSelect(users, req[r].email) # {}
                THEN Finish(r, AuthResp(400, "Email already registered"))
             ELSE /\ pc' = [pc EXCEPT ![r] = "su_insert"]
                  /\ UNCHANGED resp
    /\ UNCHANGED <<db, req, pre, lastPlaced>>
    /\ UNCHANGED elsewhere
    /\ UNCHANGED accounts

\* auth.py 242-280: insert the row with the hash in password_hash
SignupInsert(r) ==
    /\ pc[r] = "su_insert"
    /\ \E out \in Answers(InsertOutcomes), salt \in Salts : Answered(out) /\
          /\ loc' = [loc EXCEPT ![r].write_out = out]
          /\ IF out = "raise"
                THEN /\ Finish(r, AuthResp(500, "Registration failed"))
                     /\ UNCHANGED <<users, accepted>>
             ELSE IF out = "nodata"
                THEN /\ Finish(r, AuthResp(400, "Failed to create user"))
                     /\ UNCHANGED <<users, accepted>>
             ELSE /\ users' = users \cup
                        { UserRow(req[r].email,
                                  get_password_hash(req[r].password, salt)) }
                  /\ accepted' = [accepted EXCEPT
                        ![req[r].email].signup = req[r].password]
                  /\ Finish(r, AuthResp(200, "Account created successfully"))
    /\ UNCHANGED <<db, req, pre, lastPlaced, addresses>>
    /\ UNCHANGED elsewhere

\* auth.py 300-349: fetch the row, verify the password against password_hash
LoginSelect(r) ==
    /\ pc[r] = "li_select"
    /\ \E out \in Answers(CallOutcomes) : Answered(out) /\
          /\ loc' = [loc EXCEPT ![r].select_out = out]
          /\ IF out = "raise"
                THEN Finish(r, AuthResp(500, "Login failed"))
             ELSE IF UserSelect(users, req[r].email) = {}
                THEN Finish(r, AuthResp(401, "Invalid credentials"))
             ELSE LET user == CHOOSE u \in UserSelect(users, req[r].email) : TRUE
                  IN IF ~ verify_password(req[r].password, user.password_hash)
                        THEN Finish(r, AuthResp(401, "Invalid credentials"))
                     ELSE IF ~ user.is_active
                        THEN Finish(r, AuthResp(401, "Account is disabled"))
                     ELSE Finish(r, AuthResp(200, "Login successful"))
    /\ UNCHANGED <<db, req, pre, lastPlaced>>
    /\ UNCHANGED elsewhere
    /\ UNCHANGED accounts

\* auth.py 388-396: look the account up by its e-mail address
ResetSelect(r) ==
    /\ pc[r] = "rp_select"
    /\ \E out \in Answers(CallOutcomes) : Answered(out) /\
          /\ loc' = [loc EXCEPT ![r].select_out = out]
          /\ IF out = "raise"
                THEN Finish(r, AuthResp(500, "Password reset failed"))
             ELSE IF UserSelect(users, req[r].email) = {}
                THEN Finish(r, AuthResp(404, "User not found"))
             ELSE /\ pc' = [pc EXCEPT ![r] = "rp_update"]
                  /\ UNCHANGED resp
    /\ UNCHANGED <<db, req, pre, lastPlaced>>
    /\ UNCHANGED elsewhere
    /\ UNCHANGED accounts

\* auth.py 398-413: write the new hash to the column password
ResetUpdate(r) ==
    /\ pc[r] = "rp_update"
    /\ \E out \in Answers(InsertOutcomes), salt \in Salts : Answered(out) /\
          /\ loc' = [loc EXCEPT ![r].write_out = out]
          /\ IF out = "raise"
                THEN /\ Finish(r, AuthResp(500, "Password reset failed"))
                     /\ UNCHANGED <<users, accepted>>
             ELSE IF out = "nodata"
                THEN /\ Finish(r, AuthResp(400, "Failed to update password"))
                     /\ UNCHANGED <<users, accepted>>
             ELSE /\ users' = UserUpdatePassword(users, req[r].email,
                                  get_password_hash(req[r].password, salt))
                  /\ accepted' = [accepted EXCEPT
                        ![req[r].email].reset = req[r].password]
                  /\ Finish(r, AuthResp(200, "Password updated successfully"))
    /\ UNCHANGED <<db, req, pre, lastPlaced, addresses>>
    /\ UNCHANGED elsewhere

InitAuth == InitStore(NewOrderIds) /\ \A o \in orders : o.status = "confirmed"

\* signup, login and password reset served one at a time
NextAuth ==
    \E r \in Procs :
       \/ \E email \in Emails, password \in Passwords : SignupBegin(r, email, password)
       \/ SignupSelect(r)
       \/ SignupInsert(r)
       \/ \E email \in Emails, password \in Passwords : LoginBegin(r, email, password)
       \/ LoginSelect(r)
       \/ \E email \in Emails, password \in Passwords : ResetBegin(r, email, password)
       \/ ResetSelect(r)
       \/ ResetUpdate(r)
       \/ Return(r)

SpecAuth == InitAuth /\ [][NextAuth]_vars

(* ----------------------------- address book ---------------------------- *)

\* the ids str(uuid.uuid4()) may return for a new address
AddressIds == {"a1", "a2"}

NoAddress == "none"

\* address_update.dict(exclude_unset=True): nothing, or the is_default flag
AddressUpdates == { NoUpdate, [is_default |-> TRUE], [is_default |-> FALSE] }

\* supabase.table("addresses").select("*").eq("id", id).eq("user_id", user)
AddressSelectOwned(rows, id, user) ==
    { a \in rows : a.id = id /\ a.user_id = user }

\* supabase.table("addresses").update({"is_default": False}).eq("user_id", user)
AddressUnsetDefaults(rows, user) ==
    { IF a.user_id = user THEN [a EXCEPT !.is_default = FALSE] ELSE a : a \in rows }

\* supabase.table("addresses").update(update_data).eq("id", id)
AddressUpdate(rows, id, update_data) ==
    { IF a.id = id /\ "is_default" \in DOMAIN update_data
         THEN [a EXCEPT !.is_default = update_data.is_default]
         ELSE a : a \in rows }

\* supabase.table("addresses").delete().eq("id", id)
AddressDelete(rows, id) == { a \in rows : a.id # id }

\* update_data.get("is_default")
WantsDefault(update_data) ==
    "is_default" \in DOMAIN update_data /\ update_data.is_default

\* the workers that will still draw an address id
AddingAddress == { q \in Workers : pc[q] \in {"ad_unset", "ad_insert"} }

AddressResp(code, detail) == [status |-> code, detail |-> detail]

\* address_data["id"] = str(uuid.uuid4()): an id never returned before
FreshAddressId == CHOOSE id \in AddressIds : id \notin issued

\* users.py 121-130: POST /users/addresses
AddAddressBegin(r, u, is_default) ==
    /\ pc[r] = "idle"
    /\ Cardinality(AddressIds \ issued) > Cardinality(AddingAddress)
    /\ req' = [req EXCEPT ![r] = [op |-> "add_address", user |-> u,
                                  address_id |-> NoAddress,
                                  update_data |-> [is_default |-> is_default]]]
    /\ pc' = [pc EXCEPT ![r] = IF is_default THEN "ad_unset" ELSE "ad_insert"]
    /\ resp' = [resp EXCEPT ![r] = NoResp]
    /\ UNCHANGED <<db, loc, pre, lastPlaced, faults>>
    /\ UNCHANGED elsewhere
    /\ UNCHANGED accounts

\* users.py 130-131: clear is_default on every address of the user
AddAddressUnset(r) ==
    /\ pc[r] = "ad_unset"
    /\ \E out \in Answers(CallOutcomes) : Answered(out) /\
          /\ IF out = "raise"
                THEN /\ Finish(r, AddressResp(500, "Failed to add address"))
                     /\ UNCHANGED addresses
                ELSE /\ addresses' = AddressUnsetDefaults(addresses, req[r].user)
                     /\ pc' = [pc EXCEPT ![r] = "ad_insert"]
                     /\ UNCHANGED resp
    /\ UNCHANGED <<db, req, loc, pre, lastPlaced, users, accepted>>
    /\ UNCHANGED elsewhere

\* users.py 133-159: draw the id, insert the address and answer
AddAddressInsert(r) ==
    /\ pc[r] = "ad_insert"
    /\ \E out \in Answers(InsertOutcomes) : Answered(out) /\
          /\ issued' = issued \cup {FreshAddressId}
          /\ IF out = "raise"
                THEN /\ Finish(r, AddressResp(500, "Failed to add address"))
                     /\ UNCHANGED addresses
             ELSE IF out = "nodata"
                THEN /\ Finish(r, AddressResp(400, "Failed to add address"))
                     /\ UNCHANGED addresses
             ELSE /\ addresses' = addresses \cup
                        { [id |-> FreshAddressId, user_id |-> req[r].user,
                           is_default |-> req[r].update_data.is_default] }
                  /\ Finish(r, AddressResp(200, "Address added successfully"))
    /\ UNCHANGED <<products, orders, order_items, cart_items, req, loc, pre,
                   lastPlaced, users, accepted>>
    /\ UNCHANGED elsewhere

\* users.py 161-168: PUT /users/addresses/{address_id}
UpdateAddressBegin(r, u, address_id, update_data) ==
    /\ pc[r] = "idle"
    /\ req' = [req EXCEPT ![r] = [op |-> "update_address", user |-> u,
                                  address_id |-> address_id,
                                  update_data |-> update_data]]
    /\ pc' = [pc EXCEPT ![r] = "ua_select"]
    /\ resp' = [resp EXCEPT ![r] = NoResp]
    /\ UNCHANGED <<db, loc, pre, lastPlaced, faults>>
    /\ UNCHANGED elsewhere
    /\ UNCHANGED accounts

\* users.py 169-185: the address must belong to the caller, the body must
\* carry a field
UpdateAddressSelect(r) ==
    /\ pc[r] = "ua_select"
    /\ \E out \in Answers(CallOutcomes) : Answered(out) /\
          IF out = "raise"
             THEN Finish(r, AddressResp(500, "Failed to update address"))
          ELSE IF AddressSelectOwned(addresses, req[r].address_id, req[r].user) = {}
             THEN Finish(r, AddressResp(404, "Address not found"))
          ELSE IF req[r].update_data = NoUpdate
             THEN Finish(r, AddressResp(400, "No data to update"))
          ELSE /\ pc' = [pc EXCEPT ![r] =
                     IF WantsDefault(req[r].update_data) THEN "ua_unset"
                                                         ELSE "ua_update"]
               /\ UNCHANGED resp
    /\ UNCHANGED <<db, req, loc, pre, lastPlaced>>
    /\ UNCHANGED elsewhere
    /\ UNCHANGED accounts

\* users.py 188-189: clear is_default on every address of the user
UpdateAddressUnset(r) ==
    /\ pc[r] = "ua_unset"
    /\ \E out \in Answers(CallOutcomes) : Answered(out) /\
          /\ IF out = "raise"
                THEN /\ Finish(r, AddressResp(500, "Failed to update address"))
                     /\ UNCHANGED addresses
                ELSE /\ addresses' = AddressUnsetDefaults(addresses, req[r].user)
                     /\ pc' = [pc EXCEPT ![r] = "ua_update"]
                     /\ UNCHANGED resp
    /\ UNCHANGED <<db, req, loc, pre, lastPlaced, users, accepted>>
    /\ UNCHANGED elsewhere

\* users.py 191-212: update the row with the id of the path and answer
UpdateAddressUpdate(r) ==
    /\ pc[r] = "ua_update"
    /\ \E out \in Answers(CallOutcomes) : Answered(out) /\
          /\ IF out = "raise"
                THEN /\ Finish(r, AddressResp(500, "Failed to update address"))
                     /\ UNCHANGED addresses
             ELSE /\ addresses' = AddressUpdate(addresses, req[r].address_id,
                                                req[r].update_data)
                  /\ IF \E a \in addresses : a.id = req[r].address_id
                        THEN Finish(r, AddressResp(200, "Address updated successfully"))
                        ELSE Finish(r, AddressResp(400, "Failed to update address"))
    /\ UNCHANGED <<db, req, loc, pre, lastPlaced, users, accepted>>
    /\ UNCHANGED elsewhere

\* users.py 214-221: DELETE /users/addresses/{address_id}
DeleteAddressBegin(r, u, address_id) ==
    /\ pc[r] = "idle"
    /\ req' = [req EXCEPT ![r] = [op |-> "delete_address", user |-> u,
                                  address_id |-> address_id,
                                  update_data |-> NoUpdate]]
    /\ pc' = [pc EXCEPT ![r] = "da_select"]
    /\ resp' = [resp EXCEPT ![r] = NoResp]
    /\ UNCHANGED <<db, loc, pre, lastPlaced, faults>>
    /\ UNCHANGED elsewhere
    /\ UNCHANGED accounts

\* users.py 222-229: the address must belong to the caller
DeleteAddressSelect(r) ==
    /\ pc[r] = "da_select"
    /\ \E out \in Answers(CallOutcomes) : Answered(out) /\
          IF out = "raise"
             THEN Finish(r, AddressResp(500, "Failed to delete address"))
          ELSE IF AddressSelectOwned(addresses, req[r].address_id, req[r].user) = {}
             THEN Finish(r, AddressResp(404, "Address not found"))
          ELSE /\ pc' = [pc EXCEPT ![r] = "da_delete"]
               /\ UNCHANGED resp
    /\ UNCHANGED <<db, req, loc, pre, lastPlaced>>
    /\ UNCHANGED elsewhere
    /\ UNCHANGED accounts

\* users.py 231-244: delete the row and answer
DeleteAddressDelete(r) ==
    /\ pc[r] = "da_delete"
    /\ \E out \in Answers(CallOutcomes) : Answered(out) /\
          /\ IF out = "raise"
                THEN /\ Finish(r, AddressResp(500, "Failed to delete address"))
                     /\ UNCHANGED addresses
                ELSE /\ addresses' = AddressDelete(addresses, req[r].address_id)
                     /\ Finish(r, AddressResp(200, "Address deleted successfully"))
    /\ UNCHANGED <<db, req, loc, pre, lastPlaced, users, accepted>>
    /\ UNCHANGED elsewhere

InitAddress == InitStore(NewOrderIds) /\ \A o \in orders : o.status = "confirmed"

\* address requests of two workers, their store calls interleaved
NextAddress ==
    \E r \in Workers :
       \/ \E u \in Users, is_default \in BOOLEAN : AddAddressBegin(r, u, is_default)
       \/ AddAddressUnset(r)
       \/ AddAddressInsert(r)
       \/ \E u \in Users, id \in AddressIds, update_data \in AddressUpdates :
             UpdateAddressBegin(r, u, id, update_data)
       \/ UpdateAddressSelect(r)
       \/ UpdateAddressUnset(r)
       \/ UpdateAddressUpdate(r)
       \/ \E u \in Users, id \in AddressIds : DeleteAddressBegin(r, u, id)
       \/ DeleteAddressSelect(r)
       \/ DeleteAddressDelete(r)
       \/ Return(r)

SpecAddress == InitAddress /\ [][NextAddress]_vars

(* ------------------------- claim vocabulary --------------------------- *)

Done(r, op) == pc[r] = "done" /\ req[r].op = op

StockOf(prods, p) == prods[p].stock_quantity

RECURSIVE LinesTotal(_)
\* sum of unit_price * quantity over a set of order_items rows
LinesTotal(rows) ==
    IF rows = {} THEN 0
    ELSE LET x == CHOOSE y \in rows : TRUE
         IN x.unit_price * x.quantity + LinesTotal(rows \ {x})

RECURSIVE LinesQty(_, _)
\* total quantity of product p over a set of order_items rows
LinesQty(rows, p) ==
    IF rows = {} THEN 0
    ELSE LET x == CHOOSE y \in rows : TRUE
         IN (IF x.product_id = p THEN x.quantity ELSE 0) + LinesQty(rows \ {x}, p)

RECURSIVE RequestQty(_, _)
\* total quantity of product p over the items of a request
RequestQty(items, p) ==
    IF items = <<>> THEN 0
    ELSE (IF Head(items).product_id = p THEN Head(items).quantity ELSE 0)
         + RequestQty(Tail(items), p)

\* the item names no row of products, or an inactive one
ItemMissing(item, prods) ==
    ~ (item.product_id \in DOMAIN prods /\ prods[item.product_id].is_active)

\* the item asks for more than the stock of its active product
ItemOverstock(item, prods) ==
    /\ ~ ItemMissing(item, prods)
    /\ item.quantity > prods[item.product_id].stock_quantity

ItemBad(item, prods) == ItemMissing(item, prods) \/ ItemOverstock(item, prods)

\* position of the first item the validation loop cannot accept
FirstBad(items, prods) ==
    CHOOSE k \in 1..Len(items) :
        /\ ItemBad(items[k], prods)
        /\ \A j \in 1..(k - 1) : ~ ItemBad(items[j], prods)

NothingPersisted(r) ==
    /\ orders = pre[r].orders
    /\ order_items = pre[r].order_items

StoreUntouched(r) ==
    /\ NothingPersisted(r)
    /\ products = pre[r].products
    /\ cart_items = pre[r].cart_items

\* the error of the first item the validation loop rejects
FirstBadError(r) ==
    LET k == FirstBad(req[r].items, pre[r].products)
    IN IF ItemMissing(req[r].items[k], pre[r].products)
          THEN resp[r].status = 404 /\ resp[r].detail = "Product not found"
          ELSE resp[r].status = 400 /\ resp[r].detail = "Insufficient stock"

\* the order a cancel_order request names, as it was when the request arrived
TargetBefore(r) == { o \in pre[r].orders : o.id = req[r].order_id }

(* ------------------------------- claims ------------------------------- *)

\* C1: a create_order that returns success has persisted a header with status
\* pending whose total_amount is the sum of unit_price * quantity over its
\* persisted line items, and returned that same total and status.
C1_TotalIsSumOfLines ==
    \A r \in Procs :
       Done(r, "create_order") /\ resp[r].status = 200 =>
          \E o \in orders :
             /\ o.id = resp[r].order_id
             /\ o.status = "pending"
             /\ o.total_amount = LinesTotal(OrderItemsSelect(order_items, o.id))
             /\ resp[r].total_amount = o.total_amount
             /\ resp[r].order_status = o.status

C1_Witness ==
    \E r \in Procs :
       /\ Done(r, "create_order") /\ resp[r].status = 200
       /\ Cardinality(OrderItemsSelect(order_items, resp[r].order_id)) = 2
       /\ resp[r].total_amount = 8

\* C2: a create_order run alone from non-negative stocks leaves no product with
\* a negative stock_quantity, whatever the item list.
C2_StockNeverNegative ==
    \A r \in Procs :
       Done(r, "create_order")
       /\ (\A p \in Products : StockOf(pre[r].products, p) >= 0)
       => \A p \in Products : StockOf(products, p) >= 0

\* C3 as stated: a request with an item asking for more than the stock fails with
\* HTTP 400 "Insufficient stock" and persists no header and no line item.
C3_OverstockIs400 ==
    \A r \in Procs :
       Done(r, "create_order") /\ resp[r].status # 500
       /\ (\E k \in 1..Len(req[r].items) :
               ItemOverstock(req[r].items[k], pre[r].products))
       => /\ resp[r].status = 400 /\ resp[r].detail = "Insufficient stock"
          /\ NothingPersisted(r)

\* C3 amended: a request with an item asking for more than the stock fails and
\* persists no header and no line item; the error is the one of the first
\* rejected item of the list: 400 "Insufficient stock", or 404 when an earlier
\* item names a missing or inactive product (500 when the store raises).
C3_OverstockFailsFirstError ==
    \A r \in Procs :
       Done(r, "create_order")
       /\ (\E k \in 1..Len(req[r].items) :
               ItemOverstock(req[r].items[k], pre[r].products))
       => /\ NothingPersisted(r)
          /\ resp[r].status \in {400, 404, 500}
          /\ resp[r].status # 500 => FirstBadError(r)

C3_Witness ==
    \E r \in Procs :
       /\ Done(r, "create_order") /\ Len(req[r].items) = 2
       /\ ~ ItemBad(req[r].items[1], pre[r].products)
       /\ ItemOverstock(req[r].items[2], pre[r].products)
       /\ resp[r].status = 400 /\ resp[r].detail = "Insufficient stock"

\* C4 as stated: a request naming a missing or inactive product fails with
\* HTTP 404 and persists no header and no line item.
C4_MissingIs404 ==
    \A r \in Procs :
       Done(r, "create_order") /\ resp[r].status # 500
       /\ (\E k \in 1..Len(req[r].items) :
               ItemMissing(req[r].items[k], pre[r].products))
       => /\ resp[r].status = 404
          /\ NothingPersisted(r)

\* C4 amended: a request naming a missing or inactive product fails as a whole
\* and persists no header and no line item, also for its valid items; the error
\* is 404, or 400 "Insufficient stock" when an earlier item of the list asks for
\* more than the stock (500 when the store raises).
C4_MissingFailsFirstError ==
    \A r \in Procs :
       Done(r, "create_order")
       /\ (\E k \in 1..Len(req[r].items) :
               ItemMissing(req[r].items[k], pre[r].products))
       => /\ resp[r].status # 200
          /\ NothingPersisted(r)
          /\ resp[r].status # 500 => FirstBadError(r)

C4_Witness ==
    \E r \in Procs :
       /\ Done(r, "create_order") /\ Len(req[r].items) = 2
       /\ ~ ItemBad(req[r].items[1], pre[r].products)
       /\ req[r].items[2].product_id = "p3"
       /\ resp[r].status = 404

\* C5: a create_order that fails before the header is inserted (empty list,
\* missing or inactive product, insufficient stock, header insert answering no
\* row) leaves orders, order_items, stocks and carts as they were; an empty
\* item list fails with HTTP 400.
C5_EarlyFailureLeavesStore ==
    \A r \in Procs :
       Done(r, "create_order") =>
          /\ resp[r].status \in {400, 404}
             /\ resp[r].detail \in {"Order must contain at least one item",
                                    "Product not found", "Insufficient stock",
                                    "Failed to create order"}
             => StoreUntouched(r)
          /\ req[r].items = <<>> =>
                /\ resp[r].status = 400
                /\ resp[r].detail = "Order must contain at least one item"
                /\ StoreUntouched(r)

C5_Witness ==
    \E r \in Procs :
       /\ Done(r, "create_order") /\ loc[r].i = 2
       /\ resp[r].detail \in {"Product not found", "Insufficient stock"}
       /\ pre[r].cart_items # {}

\* C6: after a successful create_order by owner U run alone, every product's
\* stock is its stock before the request minus the total quantity ordered for
\* it, U has no cart item and the cart items of the other owners are unchanged.
C6_StockAndCartAfterSuccess ==
    \A r \in Procs :
       Done(r, "create_order") /\ resp[r].status = 200 =>
          /\ \A p \in Products :
                StockOf(products, p) =
                   StockOf(pre[r].products, p) - RequestQty(req[r].items, p)
          /\ { c \in cart_items : c.user_id = req[r].user } = {}
          /\ { c \in cart_items : c.user_id # req[r].user } =
                { c \in pre[r].cart_items : c.user_id # req[r].user }

C6_Witness ==
    \E r \in Procs :
       /\ Done(r, "create_order") /\ resp[r].status = 200
       /\ Len(req[r].items) = 2
       /\ req[r].items[1].product_id = req[r].items[2].product_id
       /\ { c \in pre[r].cart_items : c.user_id = req[r].user } # {}
       /\ { c \in cart_items : c.user_id # req[r].user } # {}

\* C7: once create_order has returned an error, no order header without line
\* items remains, however the line-item insert failed.
C7_NoHeaderWithoutItems ==
    \A r \in Procs :
       Done(r, "create_order") /\ resp[r].status # 200 =>
          \A o \in orders : OrderItemsSelect(order_items, o.id) # {}

\* C8: cancel_order by the owner on a pending or confirmed order, run alone,
\* succeeds, sets the status to cancelled and raises every product's stock by
\* the order's total line-item quantity of it; cancelling the order placed just
\* before gives every product the stock it had before the order.
C8_CancelRestoresStock ==
    \A r \in Procs :
       Done(r, "cancel_order") /\ resp[r].status # 500
       /\ (\E o \in TargetBefore(r) :
              o.user_id = req[r].user /\ o.status \in {"pending", "confirmed"})
       => /\ resp[r].status = 200 /\ resp[r].order_status = "cancelled"
          /\ \A o \in orders : o.id = req[r].order_id => o.status = "cancelled"
          /\ \A p \in Products :
                StockOf(products, p) =
                   StockOf(pre[r].products, p)
                   + LinesQty(OrderItemsSelect(pre[r].order_items, req[r].order_id), p)
          /\ lastPlaced.order_id = req[r].order_id =>
                \A p \in Products :
                   StockOf(products, p) = StockOf(lastPlaced.products, p)

C8_Witness ==
    \E r \in Procs :
       /\ Done(r, "cancel_order") /\ resp[r].status = 200
       /\ lastPlaced.order_id = req[r].order_id
       /\ Cardinality(OrderItemsSelect(order_items, req[r].order_id)) = 2
       /\ \E p \in Products : StockOf(products, p) # StockOf(pre[r].products, p)

\* C9: cancel_order by the owner on a shipped, delivered or cancelled order
\* fails with HTTP 400 and changes no order and no stock, so a second cancel of
\* an order restores nothing.
C9_NotCancellableUntouched ==
    \A r \in Procs :
       Done(r, "cancel_order")
       /\ (\E o \in TargetBefore(r) :
              o.user_id = req[r].user
              /\ o.status \in {"shipped", "delivered", "cancelled"})
       => /\ orders = pre[r].orders
          /\ products = pre[r].products
          /\ resp[r].status \in {400, 500}
          /\ resp[r].status = 400 => resp[r].detail = "Order cannot be cancelled"

C9_Witness ==
    \E r \in Procs :
       /\ Done(r, "cancel_order") /\ resp[r].status = 400
       /\ req[r].order_id \in NewOrderIds
       /\ \E o \in TargetBefore(r) : o.status = "cancelled"
       /\ lastPlaced.order_id = req[r].order_id
       /\ \A p \in Products : StockOf(products, p) = StockOf(lastPlaced.products, p)

\* C10: a cancel_order by a caller who does not own the order changes no order,
\* no line item and no stock at any step, and answers 404.
C10_ForeignCancelChangesNothing ==
    \A r \in Procs :
       req[r].op = "cancel_order" /\ pc[r] # "idle"
       /\ (\E o \in TargetBefore(r) : o.user_id # req[r].user)
       => /\ orders = pre[r].orders
          /\ order_items = pre[r].order_items
          /\ products = pre[r].products
          /\ pc[r] = "done" => resp[r].status \in {404, 500}

C10_Witness ==
    \E r \in Procs :
       /\ Done(r, "cancel_order") /\ resp[r].status = 404
       /\ \E o \in TargetBefore(r) :
             o.user_id # req[r].user /\ o.status = "pending"

\* the request has its header and lines persisted and its stock loop has
\* run to the end: only the cart delete of line 255 can still have failed
PlacedInFull(r) ==
    /\ loc[r].order_id # NoOrder
    /\ loc[r].order_items_data # <<>>
    /\ loc[r].i > Len(loc[r].order_items_data)
    /\ \E o \in orders : o.id = loc[r].order_id
    /\ Cardinality(OrderItemsSelect(order_items, loc[r].order_id))
          = Len(loc[r].order_items_data)

\* C11: when the cart delete at the end of create_order fails, the failure is
\* not reported: the request still answers success with the order id, and the
\* header, the line items and the stock decrements stay.
C11_CartFailureNotReported ==
    \A r \in Procs :
       Done(r, "create_order") /\ PlacedInFull(r)
       => /\ resp[r].status = 200
          /\ resp[r].order_id = loc[r].order_id

\* C12: no partial success is reported as success.  A create_order that answers
\* success has persisted its header and one line per item and has lowered the
\* stock of every line's product by the line's quantity; a cancel_order that
\* answers success has set the status to cancelled and has restored the stock of
\* every line item, also when a read in the stock loop matches no row.
C12_NoPartialSuccess ==
    \A r \in Procs :
       /\ Done(r, "create_order") /\ resp[r].status = 200
          => /\ \E o \in orders : o.id = resp[r].order_id
             /\ Cardinality(OrderItemsSelect(order_items, resp[r].order_id))
                   = Len(req[r].items)
             /\ \A x \in OrderItemsSelect(order_items, resp[r].order_id) :
                   /\ x.product_id \in DOMAIN products
                   /\ StockOf(products, x.product_id)
                         = StockOf(pre[r].products, x.product_id)
                           - RequestQty(req[r].items, x.product_id)
       /\ Done(r, "cancel_order") /\ resp[r].status = 200
          => /\ \A o \in orders : o.id = req[r].order_id => o.status = "cancelled"
             /\ \A x \in OrderItemsSelect(order_items, req[r].order_id) :
                   /\ x.product_id \in DOMAIN products
                   /\ StockOf(products, x.product_id)
                         = StockOf(pre[r].products, x.product_id)
                           + LinesQty(OrderItemsSelect(order_items, req[r].order_id),
                                      x.product_id)

RECURSIVE CatalogTotal(_, _)
\* sum of catalog price * quantity over the items of a request
CatalogTotal(items, prods) ==
    IF items = <<>> THEN 0
    ELSE prods[Head(items).product_id].price * Head(items).quantity
         + CatalogTotal(Tail(items), prods)

\* C13: unit prices and the total of an order depend on the catalog price only:
\* whatever price the client sent with an item, every persisted line carries the
\* price of its products row and the total is the sum of catalog price times
\* quantity, so two requests that differ only in client-supplied price fields
\* get the same unit prices and the same total.
C13_PricesFromCatalogOnly ==
    \A r \in Procs :
       Done(r, "create_order") /\ resp[r].status = 200 =>
          /\ \A x \in OrderItemsSelect(order_items, resp[r].order_id) :
                x.unit_price = pre[r].products[x.product_id].price
          /\ resp[r].total_amount = CatalogTotal(req[r].items, pre[r].products)
          /\ \A o \in orders : o.id = resp[r].order_id =>
                o.total_amount = CatalogTotal(req[r].items, pre[r].products)

C13_Witness ==
    \E r \in Procs :
       /\ Done(r, "create_order") /\ resp[r].status = 200
       /\ \E k \in 1..Len(req[r].items) :
             req[r].items[k].price
                # pre[r].products[req[r].items[k].product_id].price
       /\ resp[r].total_amount > 0

\* C14: every persisted line item has a quantity greater than zero: a request
\* item with quantity zero or below never yields a persisted line item, never
\* lowers a total and never raises a stock.
C14_QuantitiesPositive ==
    /\ \A x \in order_items : x.quantity > 0
    /\ \A r \in Procs :
          Done(r, "create_order")
          /\ (\E k \in 1..Len(req[r].items) : req[r].items[k].quantity <= 0)
          => /\ order_items = pre[r].order_items
             /\ \A o \in orders : o.total_amount >= 0
             /\ \A p \in Products :
                   StockOf(products, p) <= StockOf(pre[r].products, p)

\* C15: once created, the total_amount of an order and the unit_price of each
\* of its line items never change: no step of a later update_product, payment
\* confirmation or cancellation rewrites them.
C15_TotalsAndPricesFrozen ==
    [][ /\ \A o \in orders : \A o2 \in orders' :
              o2.id = o.id => o2.total_amount = o.total_amount
        /\ \A x \in order_items : \A y \in order_items' :
              y.id = x.id => y.unit_price = x.unit_price /\ y.quantity = x.quantity
      ]_vars

\* an order placed at the old price, then confirmed by a payment or cancelled,
\* after the catalog price of one of its products was changed
C15_Witness ==
    \E o \in orders :
       /\ o.id \in SeqOrderIds
       /\ o.status \in {"confirmed", "cancelled"}
       /\ o.total_amount = LinesTotal(OrderItemsSelect(order_items, o.id))
       /\ \E x \in OrderItemsSelect(order_items, o.id) :
             /\ x.product_id \in DOMAIN products
             /\ x.unit_price # products[x.product_id].price

\* both workers have answered a one-line create_order for product p with success
BothPlaced(p) ==
    \A r \in Workers :
       /\ Done(r, "create_order") /\ resp[r].status = 200
       /\ req[r].items[1].product_id = p

\* C16: two concurrent create_order requests for the same product can both pass
\* the stock check and both answer success although their combined quantity
\* exceeds the stock: whenever both answer success the stock is what the last
\* writer computed from the value it read, which was the initial stock or the
\* initial stock less the other order, so with a combined quantity above the
\* stock it ends negative or above the initial stock less the quantity sold.
C16_ConcurrentOrdersOverdraw ==
    \A p \in Products :
       BothPlaced(p) =>
          /\ \E r \in Workers : \E q \in Workers \ {r} :
                /\ StockOf(products, p)
                      = loc[r].current_stock - req[r].items[1].quantity
                /\ loc[r].current_stock \in
                      { StockOf(InitProducts, p),
                        StockOf(InitProducts, p) - req[q].items[1].quantity }
          /\ req["w1"].items[1].quantity + req["w2"].items[1].quantity
                > StockOf(InitProducts, p)
             => \/ StockOf(products, p) < 0
                \/ StockOf(products, p) >
                      StockOf(InitProducts, p) - req["w1"].items[1].quantity
                                               - req["w2"].items[1].quantity

\* both requests passed the check of line 192 against the full stock and both
\* answered success; one decrement was lost
C16_Witness ==
    \E p \in Products :
       /\ BothPlaced(p)
       /\ req["w1"].items[1].quantity + req["w2"].items[1].quantity
             > StockOf(InitProducts, p)
       /\ StockOf(products, p) >
             StockOf(InitProducts, p) - req["w1"].items[1].quantity
                                      - req["w2"].items[1].quantity

\* an avatar upload has answered
AvatarDone(r) == pc[r] = "done" /\ req[r].op \in Entries

\* the blobs, in any bucket, whose name starts with the id of u
OwnedBlobs(files, u) == { b \in files : b.owner = u }

\* C17: when an upload for an owner who already has an avatar blob completes
\* with success, through any of the four entry points and with no storage call
\* failing, exactly one blob whose name starts with the owner's id remains, and
\* it is the one this upload stored.
C17_OneBlobAfterSecondUpload ==
    \A r \in Procs :
       AvatarDone(r) /\ resp[r].status = 200 /\ faults = pre[r].faults
       /\ OwnedBlobs(pre[r].blobs, req[r].user) # {}
       => OwnedBlobs(blobs, req[r].user) = {loc[r].file}

\* the details with which the entry points refuse data for its size
TooLarge == {"File too large. Maximum size is 5MB", "File size must be less than 5MB"}

\* C18: every avatar entry point, multipart or base64, refuses data longer than
\* 5 MiB with a file-too-large error, and does not refuse data of 5 MiB or less
\* for its size (stated for decodable data of an allowed content type, in
\* requests none of whose storage calls fails).
C18_SizeLimitEverywhere ==
    \A r \in Procs :
       AvatarDone(r) /\ req[r].image.valid /\ faults = pre[r].faults
       /\ req[r].image.content_type \in allowed_types
       => IF req[r].image.bytes > 5 * 1024 * 1024
             THEN resp[r].status \in {400, 413} /\ resp[r].detail \in TooLarge
             ELSE resp[r].detail \notin TooLarge

C20_CleanupFailureSwallowed ==
    \A r \in Procs :
       AvatarDone(r)
       /\ (loc[r].list_out = "raise" \/ loc[r].remove_out \in {"error", "raise"})
       => /\ loc[r].upload_out # "none"
          /\ loc[r].upload_out = "ok" => loc[r].file \in blobs
          /\ loc[r].upload_out = "ok" /\ loc[r].update_out = "ok"
             => /\ resp[r].status = 200
                /\ resp[r].avatar_url = loc[r].file
                /\ avatar[req[r].user] = loc[r].file
          /\ resp[r].status # 200
             => loc[r].upload_out # "ok" \/ loc[r].update_out # "ok"

C20_Witness ==
    \E r \in Procs :
       /\ AvatarDone(r) /\ loc[r].remove_out \in {"error", "raise"}
       /\ resp[r].status = 200
       /\ Cardinality(OwnedBlobs(blobs, req[r].user)) = 2

\* C21: after DELETE /users/avatar answers success for an owner, no blob whose
\* name starts with the owner's id remains in the avatar folder and the owner's
\* users.avatar is null.
C21_DeleteRemovesBlobs ==
    \A r \in Procs :
       pc[r] = "done" /\ req[r].op = "delete_avatar" /\ resp[r].status = 200
       => /\ avatar[req[r].user] = NoAvatar
          /\ UserFiles(blobs, "Ecommerce-Storage", req[r].user) = {}

\* the data of the request is what the entry point refuses at validation or
\* normalization: too long, of a content type outside the allow-list, or not
\* decodable as an image
RejectedAtValidation(entry, image) ==
    CASE entry = "users_upload" ->
            \/ image.bytes > 5 * 1024 * 1024
            \/ image.content_type \notin
                  {"image/jpeg", "image/png", "image/webp", "image/gif"}
            \/ ~ image.valid
      [] entry = "users_upload_base64" ->
            image.bytes > 5 * 1024 * 1024 \/ ~ image.valid
      [] entry = "auth_upload" ->
            \/ image.bytes > 5 * 1024 * 1024
            \/ image.content_type = "text/plain"
            \/ ~ image.valid
      [] OTHER -> ~ image.valid

\* C22: an avatar upload refused at validation or normalization aborts the rest
\* of the workflow: no blob is listed, removed or uploaded and no user record is
\* written, so the blobs and the users.avatar values are as they were.
C22_RejectedUploadTouchesNothing ==
    \A r \in Procs :
       AvatarDone(r) /\ RejectedAtValidation(req[r].op, req[r].image)
       => /\ resp[r].status \in {400, 413, 500}
          /\ loc[r].list_out = "none" /\ loc[r].remove_out = "none"
          /\ loc[r].upload_out = "none" /\ loc[r].update_out = "none"
          /\ blobs = pre[r].blobs
          /\ avatar = pre[r].avatar
          /\ faults = pre[r].faults

C22_Witness ==
    \E r \in Procs :
       /\ AvatarDone(r) /\ req[r].op \in StorageEntries
       /\ ~ req[r].image.valid /\ req[r].image.bytes = 1
       /\ resp[r].status = 400
       /\ OwnedBlobs(blobs, req[r].user) # {}
       /\ avatar[req[r].user] # NoAvatar

LiveLines ==
    { x \in order_items :
         /\ x.order_id \in NewOrderIds
         /\ \E o \in orders : o.id = x.order_id /\ o.status # "cancelled" }

\* C24: stock is conserved under concurrency: once concurrent create_order and
\* cancel_order requests that placed or cancelled the orders of the run have all
\* answered success, the stock of each product is its initial value less the
\* quantity of the product in the line items of the orders not cancelled.
C24_StockConserved ==
    (\A r \in Workers :
        /\ pc[r] = "done" /\ resp[r].status = 200
        /\ req[r].op = "cancel_order" => req[r].order_id \in NewOrderIds)
    => \A p \in Products :
          StockOf(products, p) = StockOf(InitProducts, p) - LinesQty(LiveLines, p)

\* C25: for any interleaving of cancel_order requests for the same order the
\* stock of each of its products is restored at most once: the increase never
\* exceeds the quantity of the product in that order.
C25_RestoredAtMostOnce ==
    (\A r \in Workers : req[r].op = "cancel_order" /\ req[r].order_id = SeedOrderId)
    => \A p \in Products :
          StockOf(products, p) <=
             StockOf(InitProducts, p)
             + LinesQty(OrderItemsSelect(order_items, SeedOrderId), p)

\* C26: cancelled is a terminal order status: once the status of an order is
\* cancelled, no step of a later cancel_order, confirm_payment or create_order
\* changes the status of that order.
C26_CancelledIsTerminal ==
    [][ \A o \in orders : \A o2 \in orders' :
           o.status = "cancelled" /\ o2.id = o.id => o2.status = "cancelled"
      ]_vars

\* C27: confirm_payment called by a user never changes the status of an order
\* owned by another user, and never changes an order other than the one the
\* confirmed payment intent was created for.
C27_ConfirmOwnOrderOnly ==
    [][ \A r \in Procs :
           pc[r] = "cp_order" =>
              \A o \in orders :
                 o \notin orders' =>
                    /\ o.user_id = req[r].user
                    /\ o.id = loc[r].rows[1].order_id
      ]_vars

\* C28: in every state where no avatar request is in progress, the users.avatar
\* value of each user is null or the public URL of a blob that is in the store,
\* also after runs in which the blob upload or the write of users.avatar failed
\* once the previous blobs were removed.
C28_AvatarUrlNamesBlob ==
    (\A r \in Procs : pc[r] \in {"idle", "done"})
    => \A u \in Users : avatar[u] = NoAvatar \/ avatar[u] \in blobs

\* C29: for an account signed up with password p0 whose password a successful
\* reset_password then set to p1, a login the store answered succeeds with p1
\* and fails with p0.
C29_LoginAfterReset ==
    \A r \in Procs :
       /\ Done(r, "login_user")
       /\ loc[r].select_out = "ok"
       /\ accepted[req[r].email].signup # "none"
       /\ accepted[req[r].email].reset # "none"
       /\ accepted[req[r].email].reset # accepted[req[r].email].signup
       => (resp[r].status = 200 <=> req[r].password = accepted[req[r].email].reset)

\* C30: in every state where no address request is in progress, at most one
\* address of each user has is_default true, whatever the sequence or the
\* interleaving of add_address, update_address and delete_address requests.
C30_OneDefaultAddress ==
    (\A r \in Workers : pc[r] \in {"idle", "done"})
    => \A u \in Users :
          Cardinality({ a \in addresses : a.user_id = u /\ a.is_default }) <= 1

====
